---- MODULE Spec2Model ----
(***************************************************************************)
(* Mosaic image augmentation (src/main.py): four cropped images are        *)
(* written into the four quadrants of a canvas and the YOLO boxes of each  *)
(* crop are remapped into the canvas frame.                                *)
(*                                                                         *)
(* Fractions (scale_x, scale_y, box coordinates) are exact rationals       *)
(* <<numerator, denominator>> in lowest terms with a positive denominator; *)
(* Python's float rounding is not modelled.                                *)
(***************************************************************************)
EXTENDS Integers, Sequences, FiniteSets, TLC

\* ------------------------------------------------------------------ bounds
MaxW == 3
MaxH == 3
MaxBoxes == 4

\* ------------------------------------------------- arithmetic on fractions
Abs(n) == IF n < 0 THEN -n ELSE n

Min(a, b) == IF a <= b THEN a ELSE b

Max(a, b) == IF a >= b THEN a ELSE b

RECURSIVE GCD(_, _)
GCD(a, b) == IF b = 0 THEN a ELSE GCD(b, a % b)

\* a fraction in lowest terms; d > 0
R(n, d) == LET g == GCD(Abs(n), d) IN <<n \div g, d \div g>>

Zero == R(0, 1)

One == R(1, 1)

\* an int used as an operand of float arithmetic
RInt(n) == R(n, 1)

\* a * b
RMul(a, b) == R(a[1] * b[1], a[2] * b[2])

\* a + b
RAdd(a, b) == R(a[1] * b[2] + b[1] * a[2], a[2] * b[2])

\* a - b
RSub(a, b) == R(a[1] * b[2] - b[1] * a[2], a[2] * b[2])

\* Python int(x) of a float: truncation toward zero
PyInt(a) == IF a[1] >= 0 THEN a[1] \div a[2] ELSE -((-a[1]) \div a[2])

\* ------------------------------------------------------------------ inputs
\* --scale_x / --scale_y: any float; the values tried, inside and outside (0,1)
ScaleSet == {R(-1, 2), R(0, 1), R(1, 5), R(2, 5), R(3, 5), R(1, 1), R(3, 2)}

\* boxes a crop can return, (x_center, y_center, w, h) in the crop's frame,
\* each with the class label read with it: the whole crop, a small centred box,
\* and a box touching the crop's left and bottom edges
Cand == << [box |-> <<R(1, 2), R(1, 2), R(1, 1), R(1, 1)>>, label |-> 0],
           [box |-> <<R(1, 2), R(1, 2), R(1, 5), R(1, 5)>>, label |-> 1],
           [box |-> <<R(1, 5), R(7, 10), R(2, 5), R(3, 5)>>, label |-> 2] >>

\* n consecutive candidates, cyclically, starting after the k-th
Window(n, k) == [j \in 1..n |-> Cand[((k + j - 1) % Len(Cand)) + 1]]

\* the box lists a crop returns: one of each length 0..MaxBoxes
CropOutputs == {Window(n, n) : n \in 0..MaxBoxes}

Quadrants == 0..3

VARIABLES pc, mo_w, mo_h, scale_x, scale_y, new_img, writes,
          div_point_x, div_point_y, it, i, w, h, bboxes, class_labels,
          bboxes_new, new_bboxes, new_class_labels, saved_img, saved_label,
          stages, reads

vars == <<pc, mo_w, mo_h, scale_x, scale_y, new_img, writes,
          div_point_x, div_point_y, it, i, w, h, bboxes, class_labels,
          bboxes_new, new_bboxes, new_class_labels, saved_img, saved_label,
          stages, reads>>

\* ---------------------------------------------------------------- helpers
\* np.empty((mo_h, mo_w, 3)): every pixel holds an arbitrary value, written -1
\* (a pixel of source image q is written q)
EmptyImg(hh, ww) == [r \in 1..hh |-> [c \in 1..ww |-> -1]]

NoWrites(hh, ww) == [r \in 1..hh |-> [c \in 1..ww |-> 0]]

\* a slice bound k of an axis of length n: negative counts from the end, then clamped
Idx(k, n) == IF k < 0 THEN Max(k + n, 0) ELSE Min(k, n)

\* [:k] and [k:] on an axis of length n, as the 1-based indices selected
Upto(k, n) == 1..Idx(k, n)

From(k, n) == (Idx(k, n) + 1)..n

\* numpy assigns an (ih, iw, 3) array to an (sh, sw, 3) slice iff it broadcasts
Assignable(ih, iw, sh, sw) == (ih = sh \/ ih = 1) /\ (iw = sw \/ iw = 1)

\* A.RandomResizedCrop(expected_h, expected_w) resizes to exactly that size;
\* a size with a non-positive side is rejected with an exception
\* variant: a crop that accepts any size
CropRaisesOnEmpty(eh, ew) == FALSE

CropRaises(eh, ew) == eh <= 0 \/ ew <= 0

\* the outcomes of random_crop_savebboxes: an exception (unreadable image or
\* label, rejected size), or an image of the size asked for with its boxes
CropResults(eh, ew) ==
    {[ok |-> FALSE, items |-> <<>>]}
    \cup (IF CropRaises(eh, ew) THEN {}
          ELSE {[ok |-> TRUE, items |-> win] : win \in CropOutputs})

\* np.zeros((len(bboxes), 4)).tolist(), or [] when there are no boxes
\* variant: np.zeros with at least one row
NewListNeverEmpty(n) == [j \in 1..Max(n, 1) |-> <<Zero, Zero, Zero, Zero>>]

NewList(n) == IF n = 0 THEN <<>> ELSE [j \in 1..n |-> <<Zero, Zero, Zero, Zero>>]

\* for range(4): the iterator is exhausted after four values
\* variant: a loop left after its first pass
LoopDoneAfterFirst(k) == k >= 1

LoopDone(k) == k >= 4

\* the iterator's next value does not depend on the loop variable
\* variant: a counting loop that resumes from the loop variable
NextIterFromLoopVar(k, iv) == iv + 1

NextIter(k, iv) == k + 1

\* the value of i left by `for i, box in enumerate(bs)` when entered with i = iv
AfterEnumerate(iv, bs) == IF Len(bs) = 0 THEN iv ELSE Len(bs) - 1


\* ------------------------------------------------- the four quadrant branches
\* top left: (width, height) = (div_point_x, div_point_y)
W0 == div_point_x

H0 == div_point_y

\* new_img[:div_point_y, :div_point_x, :]
Rows0 == Upto(div_point_y, mo_h)

Cols0 == Upto(div_point_x, mo_w)

Remap0(box) == << RMul(box[1], scale_x), RMul(box[2], scale_y),
                  RMul(box[3], scale_x), RMul(box[4], scale_y) >>

\* top right: (width, height) = (mo_w - div_point_x, div_point_y)
W1 == mo_w - div_point_x

H1 == div_point_y

\* new_img[:div_point_y, div_point_x:, :]
Rows1 == Upto(div_point_y, mo_h)

Cols1 == From(div_point_x, mo_w)

\* variant: the left quadrants' x scale used on the right
Remap1NoComplement(box) == << RAdd(RMul(box[1], scale_x), scale_x), RMul(box[2], scale_y),
                              RMul(box[3], scale_x), RMul(box[4], scale_y) >>

Remap1(box) == << RAdd(RMul(box[1], RSub(One, scale_x)), scale_x), RMul(box[2], scale_y),
                  RMul(box[3], RSub(One, scale_x)), RMul(box[4], scale_y) >>

\* bottom left: (width, height) = (div_point_x, mo_h - div_point_y)
W2 == div_point_x

H2 == mo_h - div_point_y

\* new_img[div_point_y:, :div_point_x, :]
\* variant: the top rows
Rows2AsTop == Upto(div_point_y, mo_h)

Rows2 == From(div_point_y, mo_h)

Cols2 == Upto(div_point_x, mo_w)

\* variant: the top quadrants' y scale used with the bottom offset
Remap2TopScale(box) == << RMul(box[1], scale_x), RAdd(RMul(box[2], scale_y), scale_y),
                          RMul(box[3], scale_x), RMul(box[4], RSub(One, scale_y)) >>

Remap2(box) == << RMul(box[1], scale_x), RAdd(RMul(box[2], RSub(One, scale_y)), scale_y),
                  RMul(box[3], scale_x), RMul(box[4], RSub(One, scale_y)) >>

\* bottom right: (width, height) = (mo_w - div_point_x, mo_h - div_point_y)
W3 == mo_w - div_point_x

H3 == mo_h - div_point_y

\* new_img[div_point_y:, div_point_x:, :]
Rows3 == From(div_point_y, mo_h)

Cols3 == From(div_point_x, mo_w)

\* variant: y offset 1 instead of scale_y
Remap3OffsetOne(box) == << RAdd(RMul(box[1], RSub(One, scale_x)), scale_x),
                           RAdd(RMul(box[2], RSub(One, scale_y)), One),
                           RMul(box[3], RSub(One, scale_x)), RMul(box[4], RSub(One, scale_y)) >>

Remap3(box) == << RAdd(RMul(box[1], RSub(One, scale_x)), scale_x),
                  RAdd(RMul(box[2], RSub(One, scale_y)), scale_y),
                  RMul(box[3], RSub(One, scale_x)), RMul(box[4], RSub(One, scale_y)) >>

\* new_img[rows, cols, :] = img of source image q
Paste(img, q, rows, cols) ==
    [r \in DOMAIN img |-> [c \in DOMAIN img[r] |->
        IF r \in rows /\ c \in cols THEN q ELSE img[r][c]]]

Count(cnt, rows, cols) ==
    [r \in DOMAIN cnt |-> [c \in DOMAIN cnt[r] |->
        IF r \in rows /\ c \in cols THEN cnt[r][c] + 1 ELSE cnt[r][c]]]

\* the boxes of a crop result, and the labels paired with them
Boxes(out) == [j \in DOMAIN out.items |-> out.items[j].box]

Labels(out) == [j \in DOMAIN out.items |-> out.items[j].label]

\* for i, box in enumerate(bs): newl[i][..] = ...   (newl[i] must exist);
\* mapped[j] is the value the branch computes from bs[j]
Fill(newl, bs, mapped) ==
    [j \in DOMAIN newl |-> IF j <= Len(bs) THEN mapped[j] ELSE newl[j]]

\* one pass of the loop body through the branch of quadrant q, the crop having
\* returned (or raised) out
Stage(q, eh, ew, rows, cols, out, mapped) ==
    LET bs == Boxes(out)
        newl == NewList(Len(bs))
    IN  /\ stages' = Append(stages, q)
        /\ reads' = Append(reads, q)
        /\ w' = [w EXCEPT ![q] = ew]
        /\ h' = [h EXCEPT ![q] = eh]
        /\ UNCHANGED <<mo_w, mo_h, scale_x, scale_y, div_point_x, div_point_y,
                       new_bboxes, new_class_labels, saved_img, saved_label>>
        /\ IF ~out.ok
           THEN \* the exception leaves mosaic
                /\ pc' = "failed"
                /\ i' = it
                /\ UNCHANGED <<new_img, writes, it, bboxes, class_labels, bboxes_new>>
           ELSE /\ bboxes' = [bboxes EXCEPT ![q] = bs]
                /\ class_labels' = [class_labels EXCEPT ![q] = Labels(out)]
                /\ IF ~Assignable(eh, ew, Cardinality(rows), Cardinality(cols))
                      \/ Len(newl) < Len(bs)
                   THEN \* ValueError (shapes) or IndexError
                        /\ pc' = "failed"
                        /\ i' = it
                        /\ UNCHANGED <<new_img, writes, it, bboxes_new>>
                   ELSE /\ new_img' = Paste(new_img, q, rows, cols)
                        /\ writes' = Count(writes, rows, cols)
                        /\ bboxes_new' = [bboxes_new EXCEPT ![q] = Fill(newl, bs, mapped)]
                        /\ i' = AfterEnumerate(it, bs)
                        /\ it' = NextIter(it, i')
                        /\ pc' = "loop"

\* all classes / all boxes of the augmented image
\* variant: the first two label lists exchanged
MergeLabelsSwapped == class_labels[1] \o class_labels[0] \o class_labels[2] \o class_labels[3]

MergeLabels == class_labels[0] \o class_labels[1] \o class_labels[2] \o class_labels[3]

MergeBoxes == bboxes_new[0] \o bboxes_new[1] \o bboxes_new[2] \o bboxes_new[3]

\* ------------------------------------------------------------------ actions
Init ==
    /\ pc = "start"
    /\ mo_w \in 1..MaxW
    /\ mo_h \in 1..MaxH
    /\ scale_x \in ScaleSet
    /\ scale_y \in ScaleSet
    /\ new_img = <<>>
    /\ writes = <<>>
    /\ div_point_x = 0
    /\ div_point_y = 0
    /\ it = 0
    /\ i = 0
    /\ w = [q \in Quadrants |-> 0]
    /\ h = [q \in Quadrants |-> 0]
    /\ bboxes = [q \in Quadrants |-> <<>>]
    /\ class_labels = [q \in Quadrants |-> <<>>]
    /\ bboxes_new = [q \in Quadrants |-> <<>>]
    /\ new_bboxes = <<>>
    /\ new_class_labels = <<>>
    /\ saved_img = <<>>
    /\ saved_label = <<>>
    /\ stages = <<>>
    /\ reads = <<>>

\* the canvas and the split points
Setup ==
    /\ pc = "start"
    /\ new_img' = EmptyImg(mo_h, mo_w)
    /\ writes' = NoWrites(mo_h, mo_w)
    /\ div_point_x' = PyInt(RMul(RInt(mo_w), scale_x))
    /\ div_point_y' = PyInt(RMul(RInt(mo_h), scale_y))
    /\ pc' = "loop"
    /\ UNCHANGED <<mo_w, mo_h, scale_x, scale_y, it, i, w, h, bboxes, class_labels,
                   bboxes_new, new_bboxes, new_class_labels, saved_img, saved_label,
                   stages, reads>>

\* if not i
TopLeft ==
    /\ pc = "loop" /\ ~LoopDone(it)
    /\ it = 0
    /\ \E out \in CropResults(H0, W0) :
          Stage(0, H0, W0, Rows0, Cols0, out,
                [j \in DOMAIN out.items |-> Remap0(out.items[j].box)])

\* elif i == 1
TopRight ==
    /\ pc = "loop" /\ ~LoopDone(it)
    /\ it # 0 /\ it = 1
    /\ \E out \in CropResults(H1, W1) :
          Stage(1, H1, W1, Rows1, Cols1, out,
                [j \in DOMAIN out.items |-> Remap1(out.items[j].box)])

\* elif i == 2
BottomLeft ==
    /\ pc = "loop" /\ ~LoopDone(it)
    /\ it # 0 /\ it # 1 /\ it = 2
    /\ \E out \in CropResults(H2, W2) :
          Stage(2, H2, W2, Rows2, Cols2, out,
                [j \in DOMAIN out.items |-> Remap2(out.items[j].box)])

\* else
BottomRight ==
    /\ pc = "loop" /\ ~LoopDone(it)
    /\ it # 0 /\ it # 1 /\ it # 2
    /\ \E out \in CropResults(H3, W3) :
          Stage(3, H3, W3, Rows3, Cols3, out,
                [j \in DOMAIN out.items |-> Remap3(out.items[j].box)])

Merge ==
    /\ pc = "loop" /\ LoopDone(it)
    /\ new_class_labels' = MergeLabels
    /\ new_bboxes' = MergeBoxes
    /\ pc' = "save_img"
    /\ UNCHANGED <<mo_w, mo_h, scale_x, scale_y, new_img, writes, div_point_x,
                   div_point_y, it, i, w, h, bboxes, class_labels, bboxes_new,
                   saved_img, saved_label, stages, reads>>

\* utils.save_img(new_img, image_store_path)
SaveImg ==
    /\ pc = "save_img"
    /\ saved_img' = Append(saved_img, new_img)
    /\ pc' = "save_label"
    /\ UNCHANGED <<mo_w, mo_h, scale_x, scale_y, new_img, writes, div_point_x,
                   div_point_y, it, i, w, h, bboxes, class_labels, bboxes_new,
                   new_bboxes, new_class_labels, saved_label, stages, reads>>

\* utils.save_label(new_bboxes, new_class_labels, label_store_path)
SaveLabel ==
    /\ pc = "save_label"
    /\ saved_label' = Append(saved_label, [bboxes |-> new_bboxes, labels |-> new_class_labels])
    /\ pc' = "done"
    /\ UNCHANGED <<mo_w, mo_h, scale_x, scale_y, new_img, writes, div_point_x,
                   div_point_y, it, i, w, h, bboxes, class_labels, bboxes_new,
                   new_bboxes, new_class_labels, saved_img, stages, reads>>

Next ==
    \/ Setup
    \/ TopLeft
    \/ TopRight
    \/ BottomLeft
    \/ BottomRight
    \/ Merge
    \/ SaveImg
    \/ SaveLabel

Spec == Init /\ [][Next]_vars


\* ------------------------------------------------------------ vocabulary
\* a / 2, left unreduced: only ever an operand of RAdd or RSub, which reduce
RDiv2(a) == <<a[1], a[2] * 2>>

\* a <= b and a < b on fractions
RLe(a, b) == a[1] * b[2] <= b[1] * a[2]

RLt(a, b) == a[1] * b[2] < b[1] * a[2]

AfterLoop == pc \in {"save_img", "save_label", "done"}

InUnit(s) == RLt(Zero, s) /\ RLt(s, One)

Pixels == {<<r, c>> : r \in 1..mo_h, c \in 1..mo_w}

\* the quadrant whose region rows [0,divY) / [divY,mo_h) x cols [0,divX) / [divX,mo_w)
\* holds pixel (r, c), 1-based
QuadrantAt(r, c) ==
    IF r <= div_point_y THEN (IF c <= div_point_x THEN 0 ELSE 1)
    ELSE (IF c <= div_point_x THEN 2 ELSE 3)

\* the affine maps of the specification's table
ExpectX(q, box) == IF q \in {0, 2} THEN RMul(box[1], scale_x)
                   ELSE RAdd(RMul(box[1], RSub(One, scale_x)), scale_x)

ExpectW(q, box) == IF q \in {0, 2} THEN RMul(box[3], scale_x)
                   ELSE RMul(box[3], RSub(One, scale_x))

ExpectY(q, box) == IF q \in {0, 1} THEN RMul(box[2], scale_y)
                   ELSE RAdd(RMul(box[2], RSub(One, scale_y)), scale_y)

ExpectH(q, box) == IF q \in {0, 1} THEN RMul(box[4], scale_y)
                   ELSE RMul(box[4], RSub(One, scale_y))

Expect(q, box) == <<ExpectX(q, box), ExpectY(q, box), ExpectW(q, box), ExpectH(q, box)>>

\* the quadrant stages that ran to their end (a failed run stopped inside its last one)
Completed == {stages[k] : k \in {n \in 1..Len(stages) : n < Len(stages) \/ pc # "failed"}}

FourDone == Completed = Quadrants

\* the cropper's output of all quadrants, in quadrant order, each box with its label
Pairs(q) == [j \in 1..Len(bboxes[q]) |->
                [quadrant |-> q, box |-> bboxes[q][j], label |-> class_labels[q][j]]]

AllPairs == Pairs(0) \o Pairs(1) \o Pairs(2) \o Pairs(3)

Left(b) == RSub(b[1], RDiv2(b[3]))

Right(b) == RAdd(b[1], RDiv2(b[3]))

Top(b) == RSub(b[2], RDiv2(b[4]))

Bottom(b) == RAdd(b[2], RDiv2(b[4]))

WholeCrop == <<R(1, 2), R(1, 2), R(1, 1), R(1, 1)>>

ExampleBox == <<R(1, 2), R(1, 2), R(1, 5), R(1, 5)>>

NothingSaved == saved_img = <<>> /\ saved_label = <<>>

\* ------------------------------------------------------------------ claims

\* C1: when 0 < div_point_x < mo_w and 0 < div_point_y < mo_h, no pixel is ever
\* written twice, every written pixel holds the image of the quadrant whose region
\* contains it, and once the four stages have run the target widths sum to mo_w,
\* the target heights sum to mo_h and every pixel has been written exactly once.
C1_QuadrantsTileCanvas ==
    (pc # "start" /\ 0 < div_point_x /\ div_point_x < mo_w
                  /\ 0 < div_point_y /\ div_point_y < mo_h) =>
        /\ \A p \in Pixels :
              /\ writes[p[1]][p[2]] <= 1
              /\ writes[p[1]][p[2]] = 1 => new_img[p[1]][p[2]] = QuadrantAt(p[1], p[2])
              /\ writes[p[1]][p[2]] = 1 <=> QuadrantAt(p[1], p[2]) \in Completed
        /\ FourDone =>
              /\ w[0] + w[1] = mo_w /\ w[2] + w[3] = mo_w
              /\ h[0] + h[2] = mo_h /\ h[1] + h[3] = mo_h
              /\ w[0] = w[2] /\ h[0] = h[1]
              /\ \A p \in Pixels : writes[p[1]][p[2]] = 1

C1_Witness ==
    /\ pc = "done" /\ FourDone
    /\ mo_w = 3 /\ div_point_x = 1 /\ mo_h = 2 /\ div_point_y = 1
    /\ saved_img[1][2][3] = 3

\* C2: every box a completed quadrant stage produced, and every box of the merged
\* list, is the specification's affine image of the cropper's local box: x*scaleX,
\* w*scaleX on the left, x*(1-scaleX)+scaleX, w*(1-scaleX) on the right, y*scaleY,
\* h*scaleY on top, y*(1-scaleY)+scaleY, h*(1-scaleY) at the bottom.
C2_RemapFollowsTable ==
    /\ \A q \in Completed :
          /\ Len(bboxes_new[q]) = Len(bboxes[q])
          /\ \A j \in 1..Len(bboxes[q]) : bboxes_new[q][j] = Expect(q, bboxes[q][j])
    /\ AfterLoop =>
          LET all == AllPairs
          IN  new_bboxes = [k \in 1..Len(all) |-> Expect(all[k].quadrant, all[k].box)]

C2_Witness ==
    /\ pc = "done"
    /\ scale_x = R(2, 5) /\ scale_y = R(3, 5)
    /\ \E j \in 1..Len(bboxes[1]) :
          /\ bboxes[1][j] = ExampleBox
          /\ saved_label[1].bboxes[Len(bboxes[0]) + j] = <<R(7, 10), R(3, 10), R(3, 25), R(3, 25)>>

\* C3: for scaleX, scaleY in (0,1) and positive quadrant sizes, div_point_x / mo_w
\* = scaleX and div_point_y / mo_h = scaleY, so a local box covering a whole crop
\* maps onto exactly the fraction of the canvas its quadrant's pixels occupy.
C3_ScaleIsPixelFraction ==
    (pc # "start" /\ InUnit(scale_x) /\ InUnit(scale_y)
                  /\ 0 < div_point_x /\ div_point_x < mo_w
                  /\ 0 < div_point_y /\ div_point_y < mo_h) =>
        /\ R(div_point_x, mo_w) = scale_x
        /\ R(div_point_y, mo_h) = scale_y
        /\ \A q \in Completed : \A j \in 1..Len(bboxes[q]) :
              bboxes[q][j] = WholeCrop =>
                 /\ Left(bboxes_new[q][j]) = (IF q \in {0, 2} THEN Zero ELSE R(div_point_x, mo_w))
                 /\ Right(bboxes_new[q][j]) = (IF q \in {0, 2} THEN R(div_point_x, mo_w) ELSE One)
                 /\ Top(bboxes_new[q][j]) = (IF q \in {0, 1} THEN Zero ELSE R(div_point_y, mo_h))
                 /\ Bottom(bboxes_new[q][j]) = (IF q \in {0, 1} THEN R(div_point_y, mo_h) ELSE One)

\* C4: every box of the list handed to save_label has 0 <= x_center <= 1,
\* 0 <= y_center <= 1, 0 < w <= 1 and 0 < h <= 1 in the canvas frame.
C4_FinalBoxesInUnitFrame ==
    \A n \in 1..Len(saved_label) : \A k \in 1..Len(saved_label[n].bboxes) :
        LET b == saved_label[n].bboxes[k]
        IN  /\ RLe(Zero, b[1]) /\ RLe(b[1], One)
            /\ RLe(Zero, b[2]) /\ RLe(b[2], One)
            /\ RLt(Zero, b[3]) /\ RLe(b[3], One)
            /\ RLt(Zero, b[4]) /\ RLe(b[4], One)

C4_Witness ==
    /\ pc = "done"
    /\ InUnit(scale_x) /\ InUnit(scale_y)
    /\ Len(bboxes[3]) > 0 /\ bboxes[3][1] = WholeCrop
    /\ Len(saved_label[1].bboxes) >= 4

\* C5: the lists handed to save_label are the cropper outputs concatenated in
\* quadrant order 0,1,2,3 with the order inside each quadrant kept: both have the
\* length of that concatenation, the label at k is the label the cropper paired with
\* the k-th local box, and the box at k is computed from that same local box.
C5_MergeKeepsPairing ==
    \A n \in 1..Len(saved_label) :
        LET out == saved_label[n]
            all == AllPairs
        IN  /\ Len(out.bboxes) = Len(out.labels)
            /\ Len(out.labels) = Len(all)
            /\ \A k \in 1..Len(all) :
                  /\ out.labels[k] = all[k].label
                  /\ out.bboxes[k] = Expect(all[k].quadrant, all[k].box)

C5_Witness ==
    /\ pc = "done"
    /\ Len(bboxes[0]) = 0 /\ Len(bboxes[1]) = 2 /\ Len(bboxes[2]) = 0 /\ Len(bboxes[3]) = 1
    /\ saved_label[1].labels = <<2, 0, 1>>

\* C6: when scaleX or scaleY lies outside (0,1) or a quadrant's target width or
\* height is non-positive, nothing is ever saved, the loop never runs to its end,
\* no stage with a non-positive target size completes, and the run can only end failed.
GeometryInvalid ==
    \/ ~InUnit(scale_x) \/ ~InUnit(scale_y)
    \/ div_point_x <= 0 \/ mo_w - div_point_x <= 0
    \/ div_point_y <= 0 \/ mo_h - div_point_y <= 0

C7_FailureWritesNothing ==
    /\ pc = "failed" => NothingSaved
    /\ ~NothingSaved =>
          /\ FourDone /\ stages = <<0, 1, 2, 3>>
          /\ new_bboxes = bboxes_new[0] \o bboxes_new[1] \o bboxes_new[2] \o bboxes_new[3]
          /\ Len(new_class_labels) = Len(new_bboxes)
          /\ \A p \in Pixels : saved_img[1][p[1]][p[2]] \in Quadrants

C7_Witness ==
    /\ pc = "failed" /\ ~GeometryInvalid
    /\ Completed = {0, 1, 2} /\ stages = <<0, 1, 2, 3>>
    /\ Len(bboxes_new[0]) > 0
    /\ NothingSaved

\* C8: in a finished run every quadrant whose cropper output has zero boxes
\* contributes no box and no label, its image is in its canvas region, and the final
\* lists are exactly the contributions of the quadrants that have boxes.
NonEmptyPairs(q) == IF Len(bboxes[q]) = 0 THEN <<>> ELSE Pairs(q)

C8_ZeroBoxQuadrants ==
    pc = "done" =>
        LET kept == NonEmptyPairs(0) \o NonEmptyPairs(1) \o NonEmptyPairs(2) \o NonEmptyPairs(3)
            out == saved_label[1]
        IN  /\ \A q \in Quadrants : Len(bboxes[q]) = 0 =>
                  /\ bboxes_new[q] = <<>> /\ class_labels[q] = <<>>
                  /\ \A p \in Pixels : QuadrantAt(p[1], p[2]) = q => saved_img[1][p[1]][p[2]] = q
            /\ out.bboxes = [k \in 1..Len(kept) |-> Expect(kept[k].quadrant, kept[k].box)]
            /\ out.labels = [k \in 1..Len(kept) |-> kept[k].label]

C8_Witness ==
    /\ pc = "done"
    /\ Len(bboxes[0]) = 0 /\ Len(bboxes[3]) = 0
    /\ Len(bboxes[1]) = 1 /\ Len(bboxes[2]) = 3
    /\ Len(saved_label[1].bboxes) = 4

\* C9: the stages run are a prefix of top-left, top-right, bottom-left,
\* bottom-right, each reading its own source image, whatever value the inner box
\* loop left in i; the merge and the two writes happen once, after all four.
C9_FourStagesInOrder ==
    /\ Len(stages) <= 4
    /\ \A k \in 1..Len(stages) : stages[k] = k - 1 /\ reads[k] = k - 1
    /\ Len(reads) = Len(stages)
    /\ pc = "loop" => it = Len(stages)
    /\ AfterLoop => stages = <<0, 1, 2, 3>> /\ FourDone
    /\ Len(saved_img) <= 1 /\ Len(saved_label) <= 1
    /\ pc = "done" => Len(saved_img) = 1 /\ Len(saved_label) = 1

C9_Witness ==
    /\ pc = "done"
    /\ Len(bboxes[0]) >= 4 /\ Len(bboxes[1]) = 0 /\ Len(bboxes[2]) = 2 /\ Len(bboxes[3]) = 1
    /\ i = 0
    /\ stages = <<0, 1, 2, 3>>

\* C10: a remapped box whose local extent lies inside its crop has its extent inside
\* its quadrant's rectangle ([0,scaleX] or [scaleX,1] by [0,scaleY] or [scaleY,1]),
\* and two boxes of different quadrants never overlap in their interiors.
InsideCrop(b) ==
    /\ RLe(Zero, Left(b)) /\ RLe(Right(b), One)
    /\ RLe(Zero, Top(b)) /\ RLe(Bottom(b), One)

InsideQuadrant(q, b) ==
    /\ IF q \in {0, 2} THEN RLe(Zero, Left(b)) /\ RLe(Right(b), scale_x)
                       ELSE RLe(scale_x, Left(b)) /\ RLe(Right(b), One)
    /\ IF q \in {0, 1} THEN RLe(Zero, Top(b)) /\ RLe(Bottom(b), scale_y)
                       ELSE RLe(scale_y, Top(b)) /\ RLe(Bottom(b), One)

InteriorsDisjoint(a, b) ==
    \/ RLe(Right(a), Left(b)) \/ RLe(Right(b), Left(a))
    \/ RLe(Bottom(a), Top(b)) \/ RLe(Bottom(b), Top(a))

\* the (local box, remapped box) pairs of a completed quadrant
Mapped(q) == {<<bboxes[q][j], bboxes_new[q][j]>> : j \in 1..Len(bboxes[q])}

C10_BoxesStayInQuadrant ==
    /\ \A q \in Completed : \A m \in Mapped(q) :
          InsideCrop(m[1]) => InsideQuadrant(q, m[2])
    /\ pc = "done" =>
          \A q1 \in Quadrants : \A q2 \in Quadrants :
              q1 < q2 =>
                  \A m1 \in Mapped(q1) : \A m2 \in Mapped(q2) :
                      (InsideCrop(m1[1]) /\ InsideCrop(m2[1]))
                          => InteriorsDisjoint(m1[2], m2[2])

C10_Witness ==
    /\ pc = "done"
    /\ \A q \in Quadrants : Len(bboxes[q]) > 0 /\ bboxes[q][1] = WholeCrop
    /\ Right(bboxes_new[0][1]) = Left(bboxes_new[1][1])
    /\ Bottom(bboxes_new[0][1]) = Top(bboxes_new[2][1])

====
